---- MODULE Spec2Model ----
(***************************************************************************)
(* Model of the encoder family of deeptorch:                               *)
(*   components/encoders.py : Encoder, ConvolutionalEncoder, DenseEncoder  *)
(*   backbones/encoders.py  : Encoder2d                                    *)
(* The Config tree, DeepTorchModule.attr / create_many and the block       *)
(* classes live in deeptorch.config, deeptorch.core and deeptorch.blocks;  *)
(* they are modelled here from their documented contract.                  *)
(***************************************************************************)
EXTENDS Integers, Sequences, FiniteSets, TLC

VARIABLES
    defined,    \* the classes whose class body has been executed
    defaults,   \* class name -> the class attribute `defaults` (a Config)
    inst,       \* slot -> the outcome of one Encoder-family constructor call
    fwd,        \* the running / last call of Encoder.forward
    e2d,        \* the outcome of the Encoder2d constructor call
    nextId,     \* identity of the next object allocated by a build
    builds      \* the outcomes of the calls of Encoder2d.build, oldest first

vars == <<defined, defaults, inst, fwd, e2d, nextId, builds>>

-----------------------------------------------------------------------------
(* Bounds of the model *)

MaxDepth == 4       \* largest depth passed when several instances are made
MaxDepthOne == 8    \* largest depth passed when a single instance is made
MaxInst == 2        \* Encoder-family instances alive at once
MaxChannels == 4    \* longest channels_out list given to Encoder2d
MaxBlocks == 2      \* longest explicit blocks list given to Encoder2d
MaxBuilds == 3      \* calls of Encoder2d.build on the instance

(* Program constants *)

DefaultDepth == 4       \* Config().depth(4) and the parameter default depth=4
PopulateLength == 8     \* populate(..., length=8)

Classes == {"Encoder", "ConvolutionalEncoder", "DenseEncoder"}

-----------------------------------------------------------------------------
(* Config: a path-addressable tree.  A path is a sequence of names; a     *)
(* Config is a function from the paths that hold a leaf to that leaf.     *)

Leaf(kind, name, num, slots) ==
    [kind |-> kind, name |-> name, num |-> num, slots |-> slots]

Value(v) == Leaf("value", "", v, <<>>)
Target(cls) == Leaf("target", cls, 0, <<>>)
Populate(length) == Leaf("populate", "lambda", length, <<>>)
BlockSpec(slots) == Leaf("nodes", "", 0, slots)

\* Config()
EmptyConfig == [p \in {} |-> Value(0)]

\* config.<path>(leaf)
Set(cfg, path, leaf) ==
    [q \in DOMAIN cfg \cup {path} |-> IF q = path THEN leaf ELSE cfg[q]]

\* the tree `cfg` re-rooted under `prefix`
Under(prefix, cfg) ==
    [q \in {prefix \o p : p \in DOMAIN cfg} |->
        cfg[SubSeq(q, Len(prefix) + 1, Len(q))]]

\* override-wins-over-default, key by key; neither operand is changed
MergeOver(override, default) ==
    [q \in DOMAIN override \cup DOMAIN default |->
        IF q \in DOMAIN override THEN override[q] ELSE default[q]]

\* config.merge(path, other): other's tree merged under path (<<>> for None)
Merge(self, path, other) == MergeOver(Under(path, other), self)

\* 8 * 2 * i: the product written for the power
lambdaProduct(i) == 8 * 2 * i

\* lambda i: 8 * 2 ** i
lambda(i) == 8 * 2 ^ i


\* config.<path>(target, **kwargs): a constructor reference and its keyword
\* defaults, one leaf per keyword below the path
SetModule(cfg, path, target, kwargs) ==
    LET withTarget == Set(cfg, path, Target(target))
    IN  MergeOver(
            [q \in {path \o <<k>> : k \in DOMAIN kwargs} |->
                Value(kwargs[q[Len(q)]])],
            withTarget)

\* Config().depth(4).blocks(Node("layer") >> Node("activation") >> Node("pool"))
EncoderDefaults ==
    Set(Set(EmptyConfig, <<"depth">>, Value(DefaultDepth)),
        <<"blocks">>, BlockSpec(<<"layer", "activation", "pool">>))

\* Config().merge(None, Encoder.defaults).blocks.populate(...).blocks.layer(...)
\*     .blocks.activation(nn.ReLU).blocks.pool(nn.MaxPool2d, kernel_size=2)
ConvolutionalEncoderDefaults(base) ==
    LET c0 == Merge(EmptyConfig, <<>>, base)
        c1 == Set(c0, <<"blocks", "layer", "out_channels">>,
                  Populate(PopulateLength))
        c2 == SetModule(c1, <<"blocks", "layer">>, "LazyConv2d",
                        [kernel_size |-> 3, padding |-> 1])
        c3 == SetModule(c2, <<"blocks", "activation">>, "ReLU", <<>>)
    IN  SetModule(c3, <<"blocks", "pool">>, "MaxPool2d", [kernel_size |-> 2])

\* Config().merge(None, Encoder.defaults).blocks.layer(nn.LazyLinear,
\*     out_features=128).blocks.activation(nn.ReLU).blocks.pool(nn.Identity)
DenseEncoderDefaults(base) ==
    LET c0 == Merge(EmptyConfig, <<>>, base)
        c1 == SetModule(c0, <<"blocks", "layer">>, "LazyLinear",
                        [out_features |-> 128])
        c2 == SetModule(c1, <<"blocks", "activation">>, "ReLU", <<>>)
    IN  SetModule(c2, <<"blocks", "pool">>, "Identity", <<>>)

-----------------------------------------------------------------------------
(* Execution of the class bodies of components/encoders.py, top to bottom *)

DefineEncoder ==
    /\ "Encoder" \notin defined
    /\ defined' = defined \cup {"Encoder"}
    /\ defaults' = [defaults EXCEPT !["Encoder"] = EncoderDefaults]
    /\ UNCHANGED <<inst, fwd, e2d, nextId, builds>>

\* the chain started on Encoder.defaults itself instead of on a new Config()
DefineConvolutionalEncoderInPlace ==
    /\ defined = {"Encoder"}
    /\ defined' = defined \cup {"ConvolutionalEncoder"}
    /\ defaults' = [defaults EXCEPT
            !["ConvolutionalEncoder"] =
                ConvolutionalEncoderDefaults(defaults["Encoder"]),
            !["Encoder"] = ConvolutionalEncoderDefaults(defaults["Encoder"])]
    /\ UNCHANGED <<inst, fwd, e2d, nextId, builds>>

DefineConvolutionalEncoder ==
    /\ defined = {"Encoder"}
    /\ defined' = defined \cup {"ConvolutionalEncoder"}
    /\ defaults' = [defaults EXCEPT !["ConvolutionalEncoder"] =
                        ConvolutionalEncoderDefaults(defaults["Encoder"])]
    /\ UNCHANGED <<inst, fwd, e2d, nextId, builds>>

DefineDenseEncoder ==
    /\ defined = {"Encoder", "ConvolutionalEncoder"}
    /\ defined' = defined \cup {"DenseEncoder"}
    /\ defaults' = [defaults EXCEPT !["DenseEncoder"] =
                        DenseEncoderDefaults(defaults["Encoder"])]
    /\ UNCHANGED <<inst, fwd, e2d, nextId, builds>>

-----------------------------------------------------------------------------
(* DeepTorchModule: resolution of the instance's configuration *)

NotFound == [found |-> FALSE, val |-> 0]

\* the value at `path` for repeat-index i: an explicit value, or the populate
\* rule applied to i, computed at the time of the lookup
Resolve(cfg, path, i) ==
    IF path \notin DOMAIN cfg THEN NotFound
    ELSE LET leaf == cfg[path]
         IN  IF leaf.kind = "value" THEN [found |-> TRUE, val |-> leaf.num]
             ELSE IF leaf.kind = "populate" /\ i < leaf.num
                  THEN [found |-> TRUE, val |-> lambda(i)]
             ELSE NotFound

\* the override tree of the keyword blocks=...; None overrides nothing
BlocksOverride(blocks) ==
    IF blocks.isNone THEN EmptyConfig ELSE Under(<<"blocks">>, blocks.cfg)

\* DeepTorchModule.__init__(depth=depth, blocks=blocks): the instance-level
\* overrides
ModuleInit(depth, blocks) ==
    Set(BlocksOverride(blocks), <<"depth">>, Value(depth))

\* the keyword arguments resolved below `base` for repeat-index i
Kwargs(cfg, base, i) ==
    LET keys == {q[Len(q)] : q \in {r \in DOMAIN cfg :
                    /\ Len(r) = Len(base) + 1
                    /\ SubSeq(r, 1, Len(base)) = base
                    /\ Resolve(cfg, r, i).found}}
    IN  [k \in keys |-> Resolve(cfg, base \o <<k>>, i).val]

\* the slots of the block spec at <<name>> that resolve no constructor
MissingSlots(cfg, name) ==
    LET slots == cfg[<<name>>].slots
    IN  {j \in 1..Len(slots) :
            \/ <<name, slots[j]>> \notin DOMAIN cfg
            \/ cfg[<<name, slots[j]>>].kind # "target"}

Min(S) == CHOOSE m \in S : \A n \in S : m <= n

\* one child for repeat-index i, or the path that could not be resolved
CreateOne(cfg, name, i) ==
    IF <<name>> \notin DOMAIN cfg \/ cfg[<<name>>].kind # "nodes"
    THEN [error |-> <<name>>, child |-> <<>>]
    ELSE LET slots == cfg[<<name>>].slots
             missing == MissingSlots(cfg, name)
         IN  IF missing # {}
             THEN [error |-> <<name, slots[Min(missing)]>>, child |-> <<>>]
             ELSE [error |-> <<>>,
                   child |-> <<[index |-> i,
                       mods |-> [j \in 1..Len(slots) |->
                           [slot |-> slots[j],
                            target |-> cfg[<<name, slots[j]>>].name,
                            kwargs |-> Kwargs(cfg, <<name, slots[j]>>, i)]]]>>]

\* create_many(name, count): children for i = from..count-1 appended to `done`;
\* stops at the first index that fails to resolve
RECURSIVE CreateFrom(_, _, _, _, _)
CreateFrom(cfg, name, count, from, done) ==
    IF from >= count THEN [error |-> <<>>, children |-> done]
    ELSE LET one == CreateOne(cfg, name, from)
         IN  IF one.error # <<>>
             THEN [error |-> one.error, children |-> done]
             ELSE CreateFrom(cfg, name, count, from + 1, done \o one.child)

CreateMany(cfg, name, count) == CreateFrom(cfg, name, count, 0, <<>>)

-----------------------------------------------------------------------------
(* Encoder.__init__ and Encoder.forward (components/encoders.py) *)

\* the values a caller passes for `blocks`: None, a Config overriding
\* layer.out_channels, or a Config naming a constructor for every slot
OverrideChannels == {5}

NoBlocks == [isNone |-> TRUE, cfg |-> EmptyConfig]

ChannelsOverride(v) ==
    [isNone |-> FALSE,
     cfg |-> Set(EmptyConfig, <<"layer", "out_channels">>, Value(v))]

FullBlocks ==
    [isNone |-> FALSE,
     cfg |-> SetModule(SetModule(SetModule(EmptyConfig,
                 <<"layer">>, "LazyLinear", [out_features |-> 32]),
                 <<"activation">>, "Tanh", <<>>),
                 <<"pool">>, "Identity", <<>>)]

BlocksArgs == {NoBlocks, FullBlocks} \cup {ChannelsOverride(v) : v \in OverrideChannels}

NoInstance ==
    [status |-> "none", cls |-> "", depthArg |-> 0, blocksArg |-> NoBlocks,
     depth |-> 0, blocks |-> <<>>, error |-> <<>>]

\* self.attr(name): the instance's overrides merged over the class defaults,
\* then the lookup of name
Attr(cls, overrides, name) ==
    Resolve(MergeOver(overrides, defaults[cls]), <<name>>, 0)

\* the body of Encoder.__init__ after super().__init__ recorded `overrides`:
\* self.depth = self.attr("depth"); self.blocks = self.create_many("blocks",
\* self.depth).  An unresolved path raises out of the constructor.
InitOutcome(cls, depth, blocks, overrides) ==
    LET d == Attr(cls, overrides, "depth")
        made == CreateMany(MergeOver(overrides, defaults[cls]), "blocks", d.val)
        self == [NoInstance EXCEPT !.cls = cls, !.depthArg = depth,
                                   !.blocksArg = blocks]
    IN  IF ~d.found
        THEN [self EXCEPT !.status = "raised", !.error = <<"depth">>]
        ELSE IF made.error # <<>>
        THEN [self EXCEPT !.status = "raised", !.depth = d.val,
                          !.error = made.error]
        ELSE [self EXCEPT !.status = "ok", !.depth = d.val,
                          !.blocks = made.children]

\* super().__init__(blocks=blocks): the depth argument is not forwarded
Encoder__init__DropsDepth(k, cls, depth, blocks) ==
    /\ inst' = [inst EXCEPT ![k] =
                    InitOutcome(cls, depth, blocks, BlocksOverride(blocks))]
    /\ UNCHANGED <<defined, defaults, fwd, e2d, nextId, builds>>

\* super().__init__(depth=depth): the blocks argument is not forwarded
Encoder__init__DropsBlocks(k, cls, depth, blocks) ==
    /\ inst' = [inst EXCEPT ![k] =
                    InitOutcome(cls, depth, blocks, ModuleInit(depth, NoBlocks))]
    /\ UNCHANGED <<defined, defaults, fwd, e2d, nextId, builds>>

\* the overrides are merged into the class attribute `defaults` in place
Encoder__init__WritesDefaults(k, cls, depth, blocks) ==
    /\ inst' = [inst EXCEPT ![k] =
                    InitOutcome(cls, depth, blocks, ModuleInit(depth, blocks))]
    /\ defaults' = [defaults EXCEPT ![cls] =
                        MergeOver(ModuleInit(depth, blocks), @)]
    /\ UNCHANGED <<defined, fwd, e2d, nextId, builds>>

\* the error of create_many is swallowed and the instance returned as it is
Encoder__init__Swallows(k, cls, depth, blocks) ==
    /\ inst' = [inst EXCEPT ![k] =
            [InitOutcome(cls, depth, blocks, ModuleInit(depth, blocks))
                EXCEPT !.status = "ok", !.error = <<>>]]
    /\ UNCHANGED <<defined, defaults, fwd, e2d, nextId, builds>>

\* Encoder.__init__(self, depth, blocks) for an instance of class cls, its
\* outcome recorded in slot k
Encoder__init__(k, cls, depth, blocks) ==
    /\ inst' = [inst EXCEPT ![k] =
                    InitOutcome(cls, depth, blocks, ModuleInit(depth, blocks))]
    /\ UNCHANGED <<defined, defaults, fwd, e2d, nextId, builds>>

Idle == [pc |-> "idle", k |-> 0, input |-> 0,
         x |-> [base |-> 0, applied |-> <<>>], i |-> 0, calls |-> <<>>]

Inputs == {1, 2}

\* a user constructs an instance of depth 1..maxDepth, kept in slot k, once
\* the module is imported
Construct(k, maxDepth) ==
    /\ defined = Classes
    /\ fwd.pc # "running"
    /\ inst[k].status = "none"
    /\ \E cls \in Classes, depth \in 1..maxDepth, blocks \in BlocksArgs :
            Encoder__init__(k, cls, depth, blocks)

ConstructAny == \E k \in 1..MaxInst : Construct(k, MaxDepth)

ConstructFirst == Construct(1, MaxDepthOne)

\* block(x): the block is an opaque module of the framework; its result is
\* the term "block applied to x"
BlockCall(block, x) == [x EXCEPT !.applied = Append(@, block.index)]

\* encoder(x): entry into forward
ForwardCall ==
    /\ fwd.pc # "running"
    /\ \E k \in 1..MaxInst, x0 \in Inputs :
        /\ inst[k].status = "ok"
        /\ fwd' = [pc |-> "running", k |-> k, input |-> x0,
                   x |-> [base |-> x0, applied |-> <<>>], i |-> 1,
                   calls |-> <<>>]
    /\ UNCHANGED <<defined, defaults, inst, e2d, nextId, builds>>

\* the iteration with the result of block(x) dropped: x is not rebound
ForwardStepDropsResult ==
    /\ fwd.pc = "running"
    /\ fwd.i <= Len(inst[fwd.k].blocks)
    /\ LET block == inst[fwd.k].blocks[fwd.i]
           y == BlockCall(block, fwd.x)
       IN  fwd' = [fwd EXCEPT !.i = @ + 1,
                       !.calls = Append(@, [pos |-> fwd.i, arg |-> fwd.x,
                                            result |-> y])]
    /\ UNCHANGED <<defined, defaults, inst, e2d, nextId, builds>>

\* one iteration of `for block in self.blocks: x = block(x)`
ForwardStep ==
    /\ fwd.pc = "running"
    /\ fwd.i <= Len(inst[fwd.k].blocks)
    /\ LET block == inst[fwd.k].blocks[fwd.i]
           y == BlockCall(block, fwd.x)
       IN  fwd' = [fwd EXCEPT !.x = y, !.i = @ + 1,
                       !.calls = Append(@, [pos |-> fwd.i, arg |-> fwd.x,
                                            result |-> y])]
    /\ UNCHANGED <<defined, defaults, inst, e2d, nextId, builds>>

\* return x
ForwardReturn ==
    /\ fwd.pc = "running"
    /\ fwd.i > Len(inst[fwd.k].blocks)
    /\ fwd' = [fwd EXCEPT !.pc = "returned"]
    /\ UNCHANGED <<defined, defaults, inst, e2d, nextId, builds>>

-----------------------------------------------------------------------------
(* Encoder2d (backbones/encoders.py) *)

ChannelVals == {8, 16}

\* the sequences over S of length 0..n
SeqsUpTo(S, n) == UNION {[1..m -> S] : m \in 0..n}

\* a declared block: bl.ConvPoolBlock(ch), or a LazyModule of the caller whose
\* build() returns a module or raises
ConvPoolBlock(ch) == [kind |-> "ConvPoolBlock", ch |-> ch, raises |-> FALSE]

UserBlocks == {[kind |-> "user", ch |-> 0, raises |-> r] : r \in BOOLEAN}

\* the values of the parameter channels_out: None (the default) or a list
ChannelsArgs ==
    {[isNone |-> TRUE, list |-> <<>>]} \cup
    {[isNone |-> FALSE, list |-> l] : l \in SeqsUpTo(ChannelVals, MaxChannels)}

\* the values of the parameter blocks: the sentinel `default` or a list
BlocksListArgs ==
    {[isDefault |-> TRUE, list |-> <<>>]} \cup
    {[isDefault |-> FALSE, list |-> l] : l \in SeqsUpTo(UserBlocks, MaxBlocks)}

NoEncoder2d ==
    [status |-> "none", channelsArg |-> [isNone |-> TRUE, list |-> <<>>],
     blocksArg |-> [isDefault |-> TRUE, list |-> <<>>],
     blocks |-> <<>>, error |-> ""]

\* Encoder2d.__init__(channels_out, blocks); iterating channels_out = None
\* raises TypeError
Encoder2d__init__(channels_out, blocks) ==
    LET self == [NoEncoder2d EXCEPT !.channelsArg = channels_out,
                                    !.blocksArg = blocks]
    IN  /\ e2d' =
              IF blocks.isDefault
              THEN IF channels_out.isNone
                   THEN [self EXCEPT !.status = "raised", !.error = "TypeError"]
                   ELSE [self EXCEPT !.status = "ok",
                            !.blocks = [j \in 1..Len(channels_out.list) |->
                                            ConvPoolBlock(channels_out.list[j])]]
              ELSE [self EXCEPT !.status = "ok", !.blocks = blocks.list]
        /\ UNCHANGED <<defined, defaults, inst, fwd, nextId, builds>>

Construct2d ==
    /\ e2d.status = "none"
    /\ \E channels_out \in ChannelsArgs, blocks \in BlocksListArgs :
            Encoder2d__init__(channels_out, blocks)

\* [block.build() for block in order]: position by position, each result a
\* new object; the first build() that raises ends the comprehension
RECURSIVE BuildEach(_, _, _, _, _)
BuildEach(blocks, order, n, id, acc) ==
    IF n > Len(order) THEN [acc EXCEPT !.nextId = id]
    ELSE LET pos == order[n]
             called == [acc EXCEPT !.log = Append(@, pos)]
         IN  IF blocks[pos].raises
             THEN [called EXCEPT !.raised = TRUE, !.nextId = id]
             ELSE BuildEach(blocks, order, n + 1, id + 1,
                    [called EXCEPT !.elems =
                        Append(@, [id |-> id, of |-> pos, block |-> blocks[pos]])])

NoBuild == [raised |-> FALSE, log |-> <<>>, elems |-> <<>>, nextId |-> 0]

\* the outcome of build(): nn.Sequential(*elems) is a new object, unless a
\* block raised
BuildOutcome(blocks, order) ==
    LET each == BuildEach(blocks, order, 1, nextId, NoBuild)
    IN  IF each.raised
        THEN [returned |-> FALSE, id |-> 0, elems |-> <<>>, log |-> each.log,
              nextId |-> each.nextId]
        ELSE [returned |-> TRUE, id |-> each.nextId, elems |-> each.elems,
              log |-> each.log, nextId |-> each.nextId + 1]

Record(outcome) ==
    [returned |-> outcome.returned, id |-> outcome.id, elems |-> outcome.elems,
     log |-> outcome.log]

\* build() that keeps the composite of the first call and returns it again
Encoder2d_buildMemoized ==
    /\ e2d.status = "ok"
    /\ Len(builds) < MaxBuilds
    /\ LET outcome == BuildOutcome(e2d.blocks, [j \in 1..Len(e2d.blocks) |-> j])
       IN  IF \E b \in 1..Len(builds) : builds[b].returned
           THEN /\ builds' = Append(builds,
                        builds[CHOOSE b \in 1..Len(builds) : builds[b].returned])
                /\ nextId' = nextId
           ELSE /\ builds' = Append(builds, Record(outcome))
                /\ nextId' = outcome.nextId
    /\ UNCHANGED <<defined, defaults, inst, fwd, e2d>>

\* build() over reversed(self.blocks)
Encoder2d_buildReversed ==
    /\ e2d.status = "ok"
    /\ Len(builds) < MaxBuilds
    /\ LET n == Len(e2d.blocks)
           outcome == BuildOutcome(e2d.blocks, [j \in 1..n |-> n + 1 - j])
       IN  /\ builds' = Append(builds, Record(outcome))
           /\ nextId' = outcome.nextId
    /\ UNCHANGED <<defined, defaults, inst, fwd, e2d>>

\* Encoder2d.build(): nn.Sequential(*[block.build() for block in self.blocks])
Encoder2d_build ==
    /\ e2d.status = "ok"
    /\ Len(builds) < MaxBuilds
    /\ LET outcome == BuildOutcome(e2d.blocks, [j \in 1..Len(e2d.blocks) |-> j])
       IN  /\ builds' = Append(builds, Record(outcome))
           /\ nextId' = outcome.nextId
    /\ UNCHANGED <<defined, defaults, inst, fwd, e2d>>

Init ==
    /\ defined = {}
    /\ defaults = [c \in Classes |-> EmptyConfig]
    /\ inst = [k \in 1..MaxInst |-> NoInstance]
    /\ fwd = Idle
    /\ e2d = NoEncoder2d
    /\ nextId = 1
    /\ builds = <<>>

Import ==
    \/ DefineEncoder
    \/ DefineConvolutionalEncoder
    \/ DefineDenseEncoder

\* construction of Encoder-family instances
Next ==
    \/ Import
    \/ ConstructAny

Spec == Init /\ [][Next]_vars

\* one instance, of any depth the populate rule covers, and its evaluation
NextForward ==
    \/ Import
    \/ ConstructFirst
    \/ ForwardCall
    \/ ForwardStep
    \/ ForwardReturn

SpecForward == Init /\ [][NextForward]_vars

\* an Encoder2d and its builds
Next2d ==
    \/ Construct2d
    \/ Encoder2d_build

Spec2d == Init /\ [][Next2d]_vars

-----------------------------------------------------------------------------
(* Properties of the Encoder family *)

Subclasses == {"ConvolutionalEncoder", "DenseEncoder"}

Built(k) == inst[k].status = "ok"

\* the layer module of a block and its resolved out_channels
LayerOf(block) == block.mods[1]

\* 8 * 2^i for i = 0..7, written out
ExpectedChannels == <<8, 16, 32, 64, 128, 256, 512, 1024>>

C3_PopulatedChannels ==
    \A k \in 1..MaxInst :
        (/\ Built(k)
         /\ inst[k].cls = "ConvolutionalEncoder"
         /\ inst[k].blocksArg \in {NoBlocks, FullBlocks}
         /\ inst[k].depthArg <= PopulateLength)
            => /\ Len(inst[k].blocks) = inst[k].depthArg
               /\ \A j \in 1..Len(inst[k].blocks) :
                    /\ LayerOf(inst[k].blocks[j]).slot = "layer"
                    /\ "out_channels" \in DOMAIN LayerOf(inst[k].blocks[j]).kwargs
                    /\ LayerOf(inst[k].blocks[j]).kwargs.out_channels
                            = ExpectedChannels[j]

C3_Witness ==
    \E k \in 1..MaxInst :
        /\ Built(k) /\ inst[k].cls = "ConvolutionalEncoder"
        /\ inst[k].blocksArg = NoBlocks /\ inst[k].depthArg = 8
        /\ [j \in 1..4 |-> LayerOf(inst[k].blocks[j]).kwargs.out_channels]
                = <<8, 16, 32, 64>>
        /\ LayerOf(inst[k].blocks[8]).kwargs.out_channels = 1024

\* the paths of a Config below <<"blocks">> that name a keyword `key`
HasKeyword(cfg, key) == \E q \in DOMAIN cfg : Len(q) = 3 /\ q[3] = key

\* C4: building the defaults of the two subclasses from Encoder.defaults leaves
\* Encoder.defaults with depth = 4 and the three-slot block spec only; neither
\* subclass holds the other's settings; merging again gives the same trees
C4_MergeLeavesOperands ==
    /\ "Encoder" \in defined =>
        /\ DOMAIN defaults["Encoder"] = {<<"depth">>, <<"blocks">>}
        /\ defaults["Encoder"][<<"depth">>] = Value(4)
        /\ defaults["Encoder"][<<"blocks">>].slots
                = <<"layer", "activation", "pool">>
    /\ "ConvolutionalEncoder" \in defined =>
        /\ defaults["ConvolutionalEncoder"][<<"blocks", "layer">>]
                = Target("LazyConv2d")
        /\ defaults["ConvolutionalEncoder"][<<"blocks", "pool">>]
                = Target("MaxPool2d")
        /\ ~HasKeyword(defaults["ConvolutionalEncoder"], "out_features")
        /\ defaults["ConvolutionalEncoder"]
                = ConvolutionalEncoderDefaults(defaults["Encoder"])
    /\ "DenseEncoder" \in defined =>
        /\ defaults["DenseEncoder"][<<"blocks", "layer">>]
                = Target("LazyLinear")
        /\ defaults["DenseEncoder"][<<"blocks", "pool">>] = Target("Identity")
        /\ ~HasKeyword(defaults["DenseEncoder"], "out_channels")
        /\ ~HasKeyword(defaults["DenseEncoder"], "kernel_size")
        /\ defaults["DenseEncoder"] = DenseEncoderDefaults(defaults["Encoder"])

C4_Witness ==
    /\ defined = Classes
    /\ HasKeyword(defaults["ConvolutionalEncoder"], "out_channels")
    /\ HasKeyword(defaults["DenseEncoder"], "out_features")
    /\ \E k \in 1..MaxInst : Built(k)

\* the blocks an instance resolves from the class defaults as the class body
\* built them, with no override but its own depth
ClassDefaultBlocks(cls, depth) ==
    LET pristine ==
            CASE cls = "Encoder" -> EncoderDefaults
              [] cls = "ConvolutionalEncoder"
                    -> ConvolutionalEncoderDefaults(EncoderDefaults)
              [] cls = "DenseEncoder" -> DenseEncoderDefaults(EncoderDefaults)
    IN  CreateMany(Set(pristine, <<"depth">>, Value(depth)), "blocks", depth)

\* C5: whatever was passed to another instance of the same class, before or
\* after, the class defaults stay as the class body built them and an instance
\* given no blocks override resolves the class defaults, at its own depth
C5_OverridesIsolated ==
    /\ defined = Classes =>
        /\ defaults["Encoder"] = EncoderDefaults
        /\ defaults["ConvolutionalEncoder"]
                = ConvolutionalEncoderDefaults(EncoderDefaults)
        /\ defaults["DenseEncoder"] = DenseEncoderDefaults(EncoderDefaults)
    /\ \A k \in 1..MaxInst, m \in 1..MaxInst :
        (/\ k # m
         /\ Built(k) /\ inst[k].blocksArg = NoBlocks
         /\ inst[m].status # "none" /\ inst[m].cls = inst[k].cls)
            => /\ inst[k].depth = inst[k].depthArg
               /\ inst[k].blocks
                    = ClassDefaultBlocks(inst[k].cls, inst[k].depthArg).children

C5_Witness ==
    \E k \in 1..MaxInst, m \in 1..MaxInst :
        /\ Built(k) /\ Built(m)
        /\ inst[k].cls = "ConvolutionalEncoder"
        /\ inst[m].cls = "ConvolutionalEncoder"
        /\ inst[k].blocksArg = NoBlocks /\ inst[k].depthArg = 2
        /\ inst[m].blocksArg = ChannelsOverride(5) /\ inst[m].depthArg = 3
        /\ LayerOf(inst[k].blocks[2]).kwargs.out_channels = 16
        /\ LayerOf(inst[m].blocks[2]).kwargs.out_channels = 5

\* C6: a constructor call that reaches a slot with no constructor anywhere in
\* the chain (the base Encoder, unless every slot is supplied) raises, naming
\* the path blocks.layer, and no instance with missing blocks is returned
C6_MissingPathRaises ==
    \A k \in 1..MaxInst :
        /\ (/\ inst[k].status # "none"
            /\ inst[k].cls = "Encoder"
            /\ inst[k].blocksArg # FullBlocks)
                => /\ inst[k].status = "raised"
                   /\ inst[k].error = <<"blocks", "layer">>
        /\ inst[k].status = "raised" => inst[k].blocks = <<>>
        /\ Built(k) => /\ inst[k].error = <<>>
                       /\ Len(inst[k].blocks) = inst[k].depth

C6_Witness ==
    \E k \in 1..MaxInst :
        /\ inst[k].status = "raised"
        /\ inst[k].cls = "Encoder"
        /\ inst[k].depthArg = 2
        /\ inst[k].error = <<"blocks", "layer">>

\* C8: with blocks.layer.out_channels overridden at construction, every block
\* of a ConvolutionalEncoder resolves the override, not the populate rule
C8_OverrideBeatsPopulate ==
    \A k \in 1..MaxInst, v \in OverrideChannels :
        (/\ inst[k].status # "none"
         /\ inst[k].cls = "ConvolutionalEncoder"
         /\ inst[k].blocksArg = ChannelsOverride(v))
            => /\ Built(k)
               /\ Len(inst[k].blocks) = inst[k].depthArg
               /\ \A j \in 1..Len(inst[k].blocks) :
                    /\ LayerOf(inst[k].blocks[j]).kwargs.out_channels = v
                    /\ LayerOf(inst[k].blocks[j]).kwargs.out_channels
                            # ExpectedChannels[j]

C8_Witness ==
    \E k \in 1..MaxInst :
        /\ Built(k)
        /\ inst[k].cls = "ConvolutionalEncoder"
        /\ inst[k].blocksArg = ChannelsOverride(5)
        /\ inst[k].depthArg = 4
        /\ \A j \in 1..4 : LayerOf(inst[k].blocks[j]).kwargs.out_channels = 5

-----------------------------------------------------------------------------
(* Properties of Encoder.forward *)

\* C2: forward calls the blocks at positions 1, 2, ... in that order, each
\* once; the first is given the input of forward, each later one the result
\* of the one before, and the value returned is the result of the last
C2_SequentialOrder ==
    fwd.pc # "idle" =>
        LET blocks == inst[fwd.k].blocks
            calls == fwd.calls
        IN  /\ Len(calls) = fwd.i - 1
            /\ Len(calls) <= Len(blocks)
            /\ \A j \in 1..Len(calls) :
                /\ calls[j].pos = j
                /\ calls[j].arg = IF j = 1
                                  THEN [base |-> fwd.input, applied |-> <<>>]
                                  ELSE calls[j - 1].result
                /\ calls[j].result.applied
                        = Append(calls[j].arg.applied, blocks[j].index)
            /\ fwd.pc = "returned" =>
                /\ Len(calls) = inst[fwd.k].depth
                /\ fwd.x = calls[Len(calls)].result
                /\ fwd.x.base = fwd.input
                /\ fwd.x.applied = [j \in 1..inst[fwd.k].depth |-> j - 1]

C2_Witness ==
    /\ fwd.pc = "returned"
    /\ inst[fwd.k].cls = "ConvolutionalEncoder"
    /\ fwd.input = 2
    /\ fwd.x = [base |-> 2, applied |-> <<0, 1, 2>>]

-----------------------------------------------------------------------------
(* Properties of Encoder2d *)

Returned == {b \in 1..Len(builds) : builds[b].returned}

ElemIds(b) == {builds[b].elems[j].id : j \in 1..Len(builds[b].elems)}

NoneRaises(blocks) == \A j \in 1..Len(blocks) : ~blocks[j].raises

\* C7: build() is never refused and never answers from a cache: each call
\* builds every declared block again, the composite of one call is an object
\* other than the composite and the elements of every earlier call, and
\* self.blocks is left as it was
C7_BuildNotMemoized ==
    /\ [](/\ (e2d.status = "ok" /\ Len(builds) < MaxBuilds)
                => ENABLED Encoder2d_build
          /\ \A b \in Returned :
                /\ builds[b].log = [j \in 1..Len(e2d.blocks) |-> j]
                /\ builds[b].id \notin ElemIds(b)
                /\ Cardinality(ElemIds(b)) = Len(e2d.blocks)
          /\ \A a \in Returned, b \in Returned :
                a < b => /\ builds[a].id # builds[b].id
                         /\ ElemIds(a) \cap ElemIds(b) = {}
                         /\ builds[a].id \notin ElemIds(b)
                         /\ builds[b].id \notin ElemIds(a))
    /\ [][builds' # builds => e2d' = e2d]_vars

C7_Witness ==
    /\ Len(builds) = 3
    /\ Returned = {1, 2, 3}
    /\ Len(e2d.blocks) = 2
    /\ builds[1].id # builds[2].id /\ builds[2].id # builds[3].id

\* C9: constructed without blocks, an Encoder2d holds four ConvPoolBlock
\* blocks; constructed with blocks, it holds exactly the list given
C9_DefaultFourBlocks ==
    e2d.status # "none" =>
        /\ e2d.blocksArg.isDefault =>
            /\ e2d.status = "ok"
            /\ Len(e2d.blocks) = 4
            /\ \A j \in 1..Len(e2d.blocks) : e2d.blocks[j].kind = "ConvPoolBlock"
        /\ ~e2d.blocksArg.isDefault =>
            /\ e2d.status = "ok"
            /\ e2d.blocks = e2d.blocksArg.list

\* C10: a call of build() builds the declared blocks in declaration order,
\* each once; when none raises it returns a composite whose k-th element is
\* the result of building the k-th declared block; when one raises, the blocks
\* after it are not built and nothing is returned
C10_BuildInOrder ==
    \A b \in 1..Len(builds) :
        LET blocks == e2d.blocks
            out == builds[b]
        IN  /\ Len(out.log) <= Len(blocks)
            /\ \A j \in 1..Len(out.log) : out.log[j] = j
            /\ out.returned <=> NoneRaises(blocks)
            /\ out.returned =>
                /\ Len(out.log) = Len(blocks)
                /\ Len(out.elems) = Len(blocks)
                /\ \A j \in 1..Len(blocks) :
                    /\ out.elems[j].of = j
                    /\ out.elems[j].block = blocks[j]
            /\ ~out.returned =>
                /\ out.id = 0 /\ out.elems = <<>>
                /\ blocks[Len(out.log)].raises
                /\ \A j \in 1..(Len(out.log) - 1) : ~blocks[j].raises

C10_Witness ==
    /\ Len(builds) = 2
    /\ builds[1].returned /\ Len(builds[1].elems) = 3
    /\ e2d.blocksArg.isDefault
    /\ [j \in 1..3 |-> builds[1].elems[j].block.ch] = <<8, 16, 8>>

\* the case of C10 in which the second declared block raises
C10_WitnessRaise ==
    /\ Len(builds) = 1
    /\ ~builds[1].returned
    /\ builds[1].log = <<1, 2>>

====
